---- MODULE Spec2Model ----
(***************************************************************************)
(* PANATRI API: course catalog management, enrollment and progress ledger. *)
(*                                                                         *)
(* The persistent state is the three MongoDB collections (users, courses,  *)
(* videos) and the S3 bucket.  Every HTTP handler is one action; the       *)
(* enrollment handler, whose reads and writes can interleave with other    *)
(* requests, is split at its awaits.  Service methods are operators that   *)
(* return the thrown error together with the collections as the method     *)
(* leaves them.                                                            *)
(***************************************************************************)
EXTENDS Integers, Sequences, FiniteSets, TLC

VARIABLES users, courses, videos, s3, nextId, reqs, faults, now, resp

vars == <<users, courses, videos, s3, nextId, reqs, faults, now, resp>>

\* what only the interleaved enrollment requests and the clock write
flight == <<reqs, faults, now>>

(***************************************************************************)
(* Bounds of the model.                                                    *)
(***************************************************************************)
MaxModules == 1      \* modules ever created
MaxUploads == 1      \* multipart uploads ever made, each a video at most
MaxReqs    == 2      \* enrollment requests in flight at once
MaxFaults  == 1      \* document saves that the store rejects
MaxViews   == 1      \* counted views of one video
MaxReviews == 3      \* reviews stored on one course
MaxAccounts == 3     \* user documents ever created
MaxTokens  == 2      \* password-reset tokens ever generated
MaxNow     == 3      \* clock readings, in units of five minutes

Users == {1, 2, 3}

Roles == {"user", "admin", "instructor"}

(***************************************************************************)
(* Identifiers.  A stored reference and req.user._id are ObjectIds; route  *)
(* parameters and body fields are strings.  toString converts the first    *)
(* into the second, and === between the two kinds is always false.         *)
(***************************************************************************)
ObjectId(n) == <<"ObjectId", n>>

String(n) == <<"string", n>>

toString(x) == <<"string", x[2]>>

\* the key a query condition on an id is cast to
CastId(x) == x[2]

StrictEq(a, b) == a = b

(***************************************************************************)
(* Errors.                                                                 *)
(***************************************************************************)
NoError == [name |-> "none", statusCode |-> 0]

ErrorResponse(statusCode) == [name |-> "ErrorResponse", statusCode |-> statusCode]

\* thrown by Document.save() when a schema validator rejects a path
ValidationError == [name |-> "ValidationError", statusCode |-> 0]

\* thrown by the driver when the store rejects a write
StoreError == [name |-> "Error", statusCode |-> 0]

\* the taxonomy status of an error: the status an ErrorResponse carries,
\* and the 400 a ValidationError is normalised to
ErrorStatus(err) ==
  IF err.name = "ErrorResponse" THEN err.statusCode
  ELSE IF err.name = "ValidationError" THEN 400
  ELSE IF err.name = "none" THEN 200
  ELSE 500

\* a JSON web token: the payload id, iat and exp and the secret it is signed
\* with; NoJwt is the token that is not there
NoJwt == [id |-> 0, iat |-> 0, exp |-> 0, secret |-> "none"]

\* a signed playback URL; NoUrl is none
NoUrl == [url |-> <<>>, expires |-> 0]

\* resetToken repeats the token a reset request presented (0: none);
\* statusCode is res.statusCode where the error handler is concerned;
\* videoUrl and s3Key are those of the returned video (s3Key 0: none)
NoBody == [progress |-> 0, completed |-> FALSE, courseProgress |-> 0,
           completedVideos |-> 0, totalVideos |-> 0,
           accessToken |-> NoJwt, refreshToken |-> NoJwt, resetToken |-> 0,
           statusCode |-> 0, videoUrl |-> NoUrl, s3Key |-> 0]

\* what a service method leaves behind: the error it threw, the three
\* collections and the bucket as it leaves them, the value it returned
Ret(err, us, cs, vs, body) ==
  [err |-> err, users |-> us, courses |-> cs, videos |-> vs, s3 |-> s3, body |-> body]

Throw(err) == Ret(err, users, courses, videos, NoBody)

Response(op, u, c, v, err, body) ==
  [op |-> op, user |-> u, course |-> c, video |-> v, err |-> err, body |-> body]

NoResponse == Response("none", 0, 0, 0, NoError, NoBody)

(***************************************************************************)
(* Helpers on sequences.                                                   *)
(***************************************************************************)
\* Array.prototype.findIndex, 1-based, 0 when absent
findIndex(seq, P(_)) ==
  IF \E i \in 1..Len(seq) : P(seq[i])
    THEN CHOOSE i \in 1..Len(seq) : P(seq[i]) /\ \A j \in 1..(i-1) : ~P(seq[j])
    ELSE 0

some(seq, P(_)) == \E i \in 1..Len(seq) : P(seq[i])

filter(seq, P(_)) == SelectSeq(seq, P)

MaxOf(S) == CHOOSE m \in S : \A x \in S : x <= m

(***************************************************************************)
(* Documents.                                                              *)
(***************************************************************************)
CourseIds == {1}

ModuleIds == 1..MaxModules

VideoIds == 1..MaxUploads

\* a rating that is null or was never set; ratings are kept in tenths
Null == 0

\* Strings are sequences of characters.  \\w and \\s of the slug's regular
\* expressions, and String.prototype.toLowerCase on the letters in use
WordChars == {"A", "P", "a", "b", "n", "_"}

SpaceChars == {" "}

toLowerCase(str) ==
  [i \in 1..Len(str) |->
     CASE str[i] = "A" -> "a"
       [] str[i] = "P" -> "p"
       [] OTHER -> str[i]]

\* str.replace(/[^\w\s]/gi, '')
RemoveOthers(str) ==
  LET Kept(ch) == ch \in WordChars \cup SpaceChars IN SelectSeq(str, Kept)

\* str.replace(/\s+/g, '-')
RECURSIVE HyphenateSpaces(_)
HyphenateSpaces(str) ==
  IF str = <<>> THEN <<>>
  ELSE IF Head(str) \in SpaceChars
    THEN IF Len(str) > 1 /\ str[2] \in SpaceChars
           THEN HyphenateSpaces(Tail(str))
           ELSE <<"-">> \o HyphenateSpaces(Tail(str))
    ELSE <<Head(str)>> \o HyphenateSpaces(Tail(str))

\* the slug the pre('save') hook derives from a title
Slugify(title) == HyphenateSpaces(RemoveOthers(toLowerCase(title)))

\* the schema's trim setter of title
RECURSIVE TrimStart(_)
TrimStart(str) ==
  IF str # <<>> /\ Head(str) \in SpaceChars THEN TrimStart(Tail(str)) ELSE str

RECURSIVE TrimEnd(_)
TrimEnd(str) ==
  IF str # <<>> /\ str[Len(str)] \in SpaceChars
    THEN TrimEnd(SubSeq(str, 1, Len(str) - 1)) ELSE str

Trim(str) == TrimEnd(TrimStart(str))

\* the title of the request bodies that are not about titles
DefaultTitle == <<"P", "a", "n">>

\* Course.create: schema defaults for what the request body leaves out
NewCourse(courseData, instructor) ==
  [title |-> Trim(courseData.title), slug |-> Slugify(Trim(courseData.title)),
   instructor |-> instructor, isPublished |-> courseData.isPublished,
   enrollmentCount |-> 0, modules |-> <<>>, rating |-> Null, reviews |-> <<>>]

\* Video.create: schema defaults for what the video data leaves out
NewVideo(videoData, s3Key) ==
  [course |-> CastId(videoData.course), module |-> videoData.module,
   order |-> videoData.order, isPublished |-> videoData.isPublished,
   s3Key |-> s3Key, views |-> 0, viewHistory |-> <<>>]

\* request bodies of PUT /courses/:id: the body is passed on unfiltered
UpdateCourseData ==
  { [fields |-> {"isPublished"}, isPublished |-> b, instructor |-> 0] : b \in BOOLEAN }
  \cup { [fields |-> {"instructor"}, isPublished |-> FALSE, instructor |-> u] : u \in Users }

\* request bodies of PUT /videos/:id
UpdateVideoData ==
  { [fields |-> {"isPublished"}, isPublished |-> b, module |-> 0] : b \in BOOLEAN }
  \cup { [fields |-> {"module"}, isPublished |-> FALSE, module |-> m] : m \in ModuleIds }

\* Model.findByIdAndUpdate(id, updateData) on a course
ApplyCourseUpdate(course, updateData) ==
  [course EXCEPT
     !.isPublished = IF "isPublished" \in updateData.fields
                       THEN updateData.isPublished ELSE @,
     !.instructor = IF "instructor" \in updateData.fields
                      THEN updateData.instructor ELSE @,
     !.title = IF "title" \in updateData.fields
                 THEN Trim(updateData.title) ELSE @]

\* Model.findByIdAndUpdate(id, updateData) on a video
ApplyVideoUpdate(video, updateData) ==
  [video EXCEPT
     !.isPublished = IF "isPublished" \in updateData.fields
                       THEN updateData.isPublished ELSE @,
     !.module = IF "module" \in updateData.fields
                  THEN updateData.module ELSE @]

\* User.countDocuments({'enrolledCourses.course': courseId})
EnrolledUsers(courseId) ==
  { u \in DOMAIN users :
      \E i \in 1..Len(users[u].enrolledCourses) :
        users[u].enrolledCourses[i].course = CastId(courseId) }

\* Video.find({course: courseId})
VideosOf(courseId) == { v \in DOMAIN videos : videos[v].course = CastId(courseId) }

(***************************************************************************)
(* Access control as the services write it.                                *)
(***************************************************************************)
\* a check of the role alone, which lets any instructor manage any course
NotAuthorized_RoleOnly(user, course, userId) ==
  user.role # "admin" /\ user.role # "instructor"

\* user.role !== 'admin' && course.instructor.toString() !== userId
NotAuthorized(user, course, userId) ==
  user.role # "admin" /\ ~StrictEq(toString(ObjectId(course.instructor)), userId)

\* course.instructor.toString() !== userId
\*   && !(await User.findOne({_id: userId, role: 'admin'}))
NotAuthorizedForModules(course, userId) ==
  /\ ~StrictEq(toString(ObjectId(course.instructor)), userId)
  /\ ~(CastId(userId) \in DOMAIN users /\ users[CastId(userId)].role = "admin")

\* authorize(...roles): the error handed to next(), NoError when it calls next()
authorize(roles, u) ==
  IF users[u].role \notin roles THEN ErrorResponse(403) ELSE NoError

(***************************************************************************)
(* CourseService.                                                          *)
(***************************************************************************)
createCourse(courseData, instructorId) ==
  LET uid == CastId(instructorId) IN
  IF ~(uid \in DOMAIN users /\ users[uid].role \in {"instructor", "admin"})
    THEN Throw(ErrorResponse(404))
    ELSE Ret(NoError, users,
             (nextId.course :> NewCourse(courseData, uid)) @@ courses,
             videos, NoBody)

updateCourse(courseId, updateData, userId) ==
  LET cid == CastId(courseId)
      uid == CastId(userId) IN
  IF cid \notin DOMAIN courses THEN Throw(ErrorResponse(404))
  ELSE IF uid \notin DOMAIN users THEN Throw(ErrorResponse(404))
  ELSE IF NotAuthorized(users[uid], courses[cid], userId) THEN Throw(ErrorResponse(403))
  ELSE Ret(NoError, users,
           [courses EXCEPT ![cid] = ApplyCourseUpdate(@, updateData)],
           videos, NoBody)

deleteCourse(courseId, userId) ==
  LET cid == CastId(courseId)
      uid == CastId(userId) IN
  IF cid \notin DOMAIN courses THEN Throw(ErrorResponse(404))
  ELSE IF uid \notin DOMAIN users THEN Throw(ErrorResponse(404))
  ELSE IF NotAuthorized(users[uid], courses[cid], userId) THEN Throw(ErrorResponse(403))
  ELSE IF Cardinality(EnrolledUsers(courseId)) > 0 THEN Throw(ErrorResponse(400))
  ELSE Ret(NoError, users,
           [c \in DOMAIN courses \ {cid} |-> courses[c]],
           [v \in DOMAIN videos \ VideosOf(courseId) |-> videos[v]],
           NoBody)

addModule(courseId, moduleData, userId) ==
  LET cid == CastId(courseId) IN
  IF cid \notin DOMAIN courses THEN Throw(ErrorResponse(404))
  ELSE IF NotAuthorizedForModules(courses[cid], userId) THEN Throw(ErrorResponse(403))
  ELSE
    LET modules == courses[cid].modules
        order == IF moduleData.order = 0
                   THEN (IF Len(modules) > 0
                           THEN MaxOf({ modules[i].order : i \in 1..Len(modules) }) + 1
                           ELSE 1)
                   ELSE moduleData.order
    IN Ret(NoError, users,
           [courses EXCEPT ![cid].modules =
              Append(@, [id |-> nextId.module, order |-> order])],
           videos, NoBody)

updateModule(courseId, moduleId, updateData, userId) ==
  LET cid == CastId(courseId) IN
  IF cid \notin DOMAIN courses THEN Throw(ErrorResponse(404))
  ELSE IF NotAuthorizedForModules(courses[cid], userId) THEN Throw(ErrorResponse(403))
  ELSE
    LET IsIt(module) == StrictEq(toString(ObjectId(module.id)), moduleId)
        moduleIndex == findIndex(courses[cid].modules, IsIt)
    IN IF moduleIndex = 0 THEN Throw(ErrorResponse(404))
       ELSE Ret(NoError, users,
                [courses EXCEPT ![cid].modules[moduleIndex].order = updateData.order],
                videos, NoBody)

deleteModule(courseId, moduleId, userId) ==
  LET cid == CastId(courseId) IN
  IF cid \notin DOMAIN courses THEN Throw(ErrorResponse(404))
  ELSE IF NotAuthorizedForModules(courses[cid], userId) THEN Throw(ErrorResponse(403))
  ELSE IF \E v \in VideosOf(courseId) : videos[v].module = CastId(moduleId)
    THEN Throw(ErrorResponse(400))
  ELSE
    LET IsNotIt(module) == ~StrictEq(toString(ObjectId(module.id)), moduleId)
    IN Ret(NoError, users,
           [courses EXCEPT ![cid].modules = filter(@, IsNotIt)],
           videos, NoBody)

(***************************************************************************)
(* VideoService: management of videos.                                     *)
(***************************************************************************)
createVideo(videoData, s3Key, userId) ==
  LET cid == CastId(videoData.course)
      uid == CastId(userId) IN
  IF cid \notin DOMAIN courses THEN Throw(ErrorResponse(404))
  ELSE IF uid \notin DOMAIN users THEN Throw(ErrorResponse(404))
  ELSE IF NotAuthorized(users[uid], courses[cid], userId) THEN Throw(ErrorResponse(403))
  ELSE
    LET IsIt(module) == StrictEq(toString(ObjectId(module.id)), String(videoData.module))
        siblings == VideosOf(videoData.course)
        order == IF videoData.order = 0
                   THEN (IF siblings # {}
                           THEN MaxOf({ videos[v].order : v \in siblings }) + 1
                           ELSE 1)
                   ELSE videoData.order
    IN IF videoData.module # 0 /\ ~some(courses[cid].modules, IsIt)
         THEN Throw(ErrorResponse(404))
         ELSE Ret(NoError, users, courses,
                  (s3Key :> NewVideo([videoData EXCEPT !.order = order], s3Key))
                     @@ videos,
                  NoBody)

updateVideo(videoId, updateData, userId) ==
  LET vid == CastId(videoId)
      uid == CastId(userId) IN
  IF vid \notin DOMAIN videos THEN Throw(ErrorResponse(404))
  ELSE IF videos[vid].course \notin DOMAIN courses THEN Throw(ErrorResponse(404))
  ELSE IF uid \notin DOMAIN users THEN Throw(ErrorResponse(404))
  ELSE IF NotAuthorized(users[uid], courses[videos[vid].course], userId)
    THEN Throw(ErrorResponse(403))
  ELSE
    LET IsIt(module) == StrictEq(toString(ObjectId(module.id)), String(updateData.module))
    IN IF /\ "module" \in updateData.fields
          /\ ~some(courses[videos[vid].course].modules, IsIt)
         THEN Throw(ErrorResponse(404))
         ELSE Ret(NoError, users, courses,
                  [videos EXCEPT ![vid] = ApplyVideoUpdate(@, updateData)],
                  NoBody)

deleteVideo(videoId, userId) ==
  LET vid == CastId(videoId)
      uid == CastId(userId) IN
  IF vid \notin DOMAIN videos THEN Throw(ErrorResponse(404))
  ELSE IF videos[vid].course \notin DOMAIN courses THEN Throw(ErrorResponse(404))
  ELSE IF uid \notin DOMAIN users THEN Throw(ErrorResponse(404))
  ELSE IF NotAuthorized(users[uid], courses[videos[vid].course], userId)
    THEN Throw(ErrorResponse(403))
  ELSE [Ret(NoError, users, courses,
            [v \in DOMAIN videos \ {vid} |-> videos[v]], NoBody)
          EXCEPT !.s3 = s3 \ {videos[vid].s3Key}]

AllowedTypes == {"video/mp4", "video/quicktime", "video/x-msvideo", "video/x-ms-wmv"}

getVideoUploadUrl(fileType, courseId, userId) ==
  LET cid == CastId(courseId)
      uid == CastId(userId) IN
  IF cid \notin DOMAIN courses THEN Throw(ErrorResponse(404))
  ELSE IF uid \notin DOMAIN users THEN Throw(ErrorResponse(404))
  ELSE IF NotAuthorized(users[uid], courses[cid], userId) THEN Throw(ErrorResponse(403))
  ELSE IF fileType \notin AllowedTypes THEN Throw(ErrorResponse(400))
  ELSE Ret(NoError, users, courses, videos, NoBody)

(***************************************************************************)
(* HTTP handlers of the catalog: route middleware, controller, service.    *)
(* The authenticated principal u reaches the controller as req.user, and   *)
(* the controller hands req.user._id, an ObjectId, to the service.         *)
(***************************************************************************)
Managers == {"admin", "instructor"}

\* the course a video belongs to, 0 when the video is not stored
CourseOfVideo(v) == IF v \in DOMAIN videos THEN videos[v].course ELSE 0

\* persist what a service method left behind and answer the request
Commit(r, op, u, c, v) ==
  /\ users' = r.users
  /\ courses' = r.courses
  /\ videos' = r.videos
  /\ s3' = r.s3
  /\ resp' = Response(op, u, c, v, r.err, r.body)

\* a middleware answered before the controller ran
Reject(err, op, u, c, v) ==
  /\ resp' = Response(op, u, c, v, err, NoBody)
  /\ UNCHANGED <<users, courses, videos, s3>>

CreateCourseReq(u, courseData) ==
  /\ nextId.course \in CourseIds
  /\ LET denied == authorize(Managers, u)
         r == createCourse(courseData, ObjectId(u))
     IN IF denied # NoError
          THEN Reject(denied, "createCourse", u, 0, 0) /\ UNCHANGED nextId
          ELSE /\ Commit(r, "createCourse", u, nextId.course, 0)
               /\ nextId' = IF r.err = NoError
                              THEN [nextId EXCEPT !.course = @ + 1] ELSE nextId
  /\ UNCHANGED flight

UpdateCourseReq(u, c, updateData) ==
  /\ LET denied == authorize(Managers, u)
     IN IF denied # NoError
          THEN Reject(denied, "updateCourse", u, c, 0)
          ELSE Commit(updateCourse(String(c), updateData, ObjectId(u)),
                      "updateCourse", u, c, 0)
  /\ UNCHANGED <<nextId, flight>>

DeleteCourseReq(u, c) ==
  /\ LET denied == authorize(Managers, u)
     IN IF denied # NoError
          THEN Reject(denied, "deleteCourse", u, c, 0)
          ELSE Commit(deleteCourse(String(c), ObjectId(u)), "deleteCourse", u, c, 0)
  /\ UNCHANGED <<nextId, flight>>

AddModuleReq(u, c, moduleData) ==
  /\ nextId.module <= MaxModules
  /\ LET denied == authorize(Managers, u)
         r == addModule(String(c), moduleData, ObjectId(u))
     IN IF denied # NoError
          THEN Reject(denied, "addModule", u, c, 0) /\ UNCHANGED nextId
          ELSE /\ Commit(r, "addModule", u, c, 0)
               /\ nextId' = IF r.err = NoError
                              THEN [nextId EXCEPT !.module = @ + 1] ELSE nextId
  /\ UNCHANGED flight

UpdateModuleReq(u, c, m, updateData) ==
  /\ LET denied == authorize(Managers, u)
     IN IF denied # NoError
          THEN Reject(denied, "updateModule", u, c, 0)
          ELSE Commit(updateModule(String(c), String(m), updateData, ObjectId(u)),
                      "updateModule", u, c, 0)
  /\ UNCHANGED <<nextId, flight>>

DeleteModuleReq(u, c, m) ==
  /\ LET denied == authorize(Managers, u)
     IN IF denied # NoError
          THEN Reject(denied, "deleteModule", u, c, 0)
          ELSE Commit(deleteModule(String(c), String(m), ObjectId(u)),
                      "deleteModule", u, c, 0)
  /\ UNCHANGED <<nextId, flight>>

\* uploadToS3.single('video') stores the file under a fresh key before the
\* service is called; the n-th upload is stored under key n and the video
\* made from it gets _id n
CreateVideoReq(u, c, m, order) ==
  /\ nextId.upload <= MaxUploads
  /\ LET denied == authorize(Managers, u)
         videoData == [course |-> String(c), module |-> m, order |-> order,
                       isPublished |-> FALSE]
         r == createVideo(videoData, nextId.upload, ObjectId(u))
     IN IF denied # NoError
          THEN Reject(denied, "createVideo", u, c, 0) /\ UNCHANGED nextId
          ELSE /\ Commit([r EXCEPT !.s3 = s3 \cup {nextId.upload}],
                         "createVideo", u, c, nextId.upload)
               /\ nextId' = [nextId EXCEPT !.upload = @ + 1]
  /\ UNCHANGED flight

UpdateVideoReq(u, v, updateData) ==
  /\ LET denied == authorize(Managers, u)
     IN IF denied # NoError
          THEN Reject(denied, "updateVideo", u, CourseOfVideo(v), v)
          ELSE Commit(updateVideo(String(v), updateData, ObjectId(u)),
                      "updateVideo", u, CourseOfVideo(v), v)
  /\ UNCHANGED <<nextId, flight>>

DeleteVideoReq(u, v) ==
  /\ LET denied == authorize(Managers, u)
     IN IF denied # NoError
          THEN Reject(denied, "deleteVideo", u, CourseOfVideo(v), v)
          ELSE Commit(deleteVideo(String(v), ObjectId(u)),
                      "deleteVideo", u, CourseOfVideo(v), v)
  /\ UNCHANGED <<nextId, flight>>

GetVideoUploadUrlReq(u, c, fileType) ==
  /\ LET denied == authorize(Managers, u)
     IN IF denied # NoError
          THEN Reject(denied, "getVideoUploadUrl", u, c, 0)
          ELSE Commit(getVideoUploadUrl(fileType, String(c), ObjectId(u)),
                      "getVideoUploadUrl", u, c, 0)
  /\ UNCHANGED <<nextId, flight>>

(***************************************************************************)
(* Enrollment requests between their awaits.  A slot holds one call of     *)
(* enrollInCourse: where it stands, the enrollmentCount of the course      *)
(* document it read, which of the two saves are still pending, the error   *)
(* it threw and whether user.save() went through.                          *)
(***************************************************************************)
Slots == 1..MaxReqs

Idle ==
  [pc |-> "idle", user |-> 0, course |-> 0, enrollmentCount |-> 0,
   pending |-> {}, err |-> NoError, userSaved |-> FALSE,
   module |-> 0, instructor |-> 0, modules |-> <<>>, video |-> 0]

(***************************************************************************)
(* The catalog: three accounts, no course yet.                             *)
(***************************************************************************)
InitRole == (1 :> "admin") @@ (2 :> "instructor") @@ (3 :> "user")

NewUser(role) == [role |-> role, isActive |-> TRUE, enrolledCourses |-> <<>>]

Init ==
  /\ users = [u \in Users |-> NewUser(InitRole[u])]
  /\ courses = <<>>
  /\ videos = <<>>
  /\ s3 = {}
  /\ nextId = [course |-> 1, module |-> 1, upload |-> 1]
  /\ reqs = [r \in Slots |-> Idle]
  /\ faults = 0
  /\ now = 0
  /\ resp = NoResponse

\* request bodies of POST /courses/:id/modules (order 0: none given)
AddModuleData == { [order |-> 0] }

\* request bodies of PUT /courses/:id/modules/:moduleId
UpdateModuleData == { [order |-> 2] }

\* the order field of POST /videos (0: none given)
VideoOrders == {0}

FileTypes == {"video/mp4", "text/plain"}

Next ==
  \/ \E u \in Users, b \in BOOLEAN : CreateCourseReq(u, [title |-> DefaultTitle, isPublished |-> b])
  \/ \E u \in Users, c \in CourseIds, d \in UpdateCourseData : UpdateCourseReq(u, c, d)
  \/ \E u \in Users, c \in CourseIds : DeleteCourseReq(u, c)
  \/ \E u \in Users, c \in CourseIds, d \in AddModuleData : AddModuleReq(u, c, d)
  \/ \E u \in Users, c \in CourseIds, m \in ModuleIds, d \in UpdateModuleData :
       UpdateModuleReq(u, c, m, d)
  \/ \E u \in Users, c \in CourseIds, m \in ModuleIds : DeleteModuleReq(u, c, m)
  \/ \E u \in Users, c \in CourseIds, m \in {0} \cup ModuleIds, o \in VideoOrders :
       CreateVideoReq(u, c, m, o)
  \/ \E u \in Users, v \in VideoIds, d \in UpdateVideoData : UpdateVideoReq(u, v, d)
  \/ \E u \in Users, v \in VideoIds : DeleteVideoReq(u, v)
  \/ \E u \in Users, c \in CourseIds, t \in FileTypes : GetVideoUploadUrlReq(u, c, t)

Spec == Init /\ [][Next]_vars

(***************************************************************************)
(* Video documents: view counter and per-user view history.                *)
(***************************************************************************)
\* a schema without the validators
ValidProgress_Any(progress) == TRUE

\* the schema validators of viewHistory.progress (min 0, max 100) that
\* Document.save() runs
ValidProgress(progress) == progress >= 0 /\ progress <= 100

\* a view counter that records every view as a new history entry
incrementViews_AlwaysPush(video, userId) ==
  [video EXCEPT
     !.views = @ + 1,
     !.viewHistory = Append(@, [user |-> CastId(userId), progress |-> 0,
                                completed |-> FALSE])]

\* VideoSchema.methods.incrementViews: the video document as saved
incrementViews(video, userId) ==
  LET IsUser(view) == StrictEq(toString(ObjectId(view.user)), toString(userId))
      userViewIndex == findIndex(video.viewHistory, IsUser)
  IN [video EXCEPT
        !.views = @ + 1,
        !.viewHistory =
           IF userViewIndex = 0
             THEN Append(@, [user |-> CastId(userId), progress |-> 0,
                             completed |-> FALSE])
             ELSE @]

\* an update that records every submission as a new history entry
updateProgress_AlwaysPush(video, userId, progress, completed) ==
  [video EXCEPT
     !.viewHistory = Append(@, [user |-> CastId(userId), progress |-> progress,
                                completed |-> completed])]

\* VideoSchema.methods.updateProgress: the video document it tries to save
updateProgress(video, userId, progress, completed) ==
  LET IsUser(view) == StrictEq(toString(ObjectId(view.user)), toString(userId))
      userViewIndex == findIndex(video.viewHistory, IsUser)
  IN [video EXCEPT
        !.viewHistory =
           IF userViewIndex = 0
             THEN Append(@, [user |-> CastId(userId), progress |-> progress,
                             completed |-> completed])
             ELSE [@ EXCEPT ![userViewIndex].progress = progress,
                            ![userViewIndex].completed = completed]]

\* Math.round of num / den for num >= 0, den > 0
Round(num, den) == (2 * num + den) \div (2 * den)

\* reviews.reduce((total, review) => total + review.rating, 0)
RECURSIVE SumRatings(_)
SumRatings(reviews) ==
  IF reviews = <<>> THEN 0 ELSE Head(reviews).rating + SumRatings(Tail(reviews))

(***************************************************************************)
(* UserService: enrollment and course progress.                            *)
(***************************************************************************)
\* the check comparing the stored reference itself with the route's string
IsEnrolled_NoToString(user, courseId) ==
  LET IsCourse(enrollment) == StrictEq(ObjectId(enrollment.course), courseId)
  IN some(user.enrolledCourses, IsCourse)

\* user.enrolledCourses.some(e => e.course.toString() === courseId)
IsEnrolled(user, courseId) ==
  LET IsCourse(enrollment) == StrictEq(toString(ObjectId(enrollment.course)), courseId)
  IN some(user.enrolledCourses, IsCourse)

\* Course.findOne({_id: courseId, isPublished: true}) finds a document
FindPublished(courseId) ==
  CastId(courseId) \in DOMAIN courses /\ courses[CastId(courseId)].isPublished

NewEnrollment(courseId) == [course |-> CastId(courseId), progress |-> 0]

\* the whole of enrollInCourse with nothing running between its awaits
enrollInCourse(userId, courseId) ==
  LET cid == CastId(courseId)
      uid == CastId(userId) IN
  IF ~FindPublished(courseId) THEN Throw(ErrorResponse(404))
  ELSE IF uid \notin DOMAIN users THEN Throw(ErrorResponse(404))
  ELSE IF IsEnrolled(users[uid], courseId) THEN Throw(ErrorResponse(400))
  ELSE Ret(NoError,
           [users EXCEPT ![uid].enrolledCourses = Append(@, NewEnrollment(courseId))],
           [courses EXCEPT ![cid].enrollmentCount = @ + 1],
           videos, NoBody)

updateCourseProgress(userId, courseId, videoId, progress) ==
  LET vid == CastId(videoId)
      uid == CastId(userId) IN
  IF ~(vid \in DOMAIN videos /\ videos[vid].course = CastId(courseId))
    THEN Throw(ErrorResponse(404))
  ELSE
    LET completed == progress >= 90
        saved == [videos EXCEPT ![vid] = updateProgress(@, userId, progress, completed)]
        allVideos == { v \in DOMAIN saved : saved[v].course = CastId(courseId) }
        totalVideos == Cardinality(allVideos)
        IsDone(view) == StrictEq(toString(ObjectId(view.user)), userId) /\ view.completed
        completedVideos ==
          Cardinality({ v \in allVideos : findIndex(saved[v].viewHistory, IsDone) # 0 })
        overallProgress == Round(completedVideos * 100, totalVideos)
        IsCourse(enrollment) ==
          StrictEq(toString(ObjectId(enrollment.course)), courseId)
        enrollmentIndex ==
          IF uid \in DOMAIN users THEN findIndex(users[uid].enrolledCourses, IsCourse)
          ELSE 0
    IN IF ~ValidProgress(progress) THEN Throw(ValidationError)
       ELSE IF uid \notin DOMAIN users
         THEN Ret(ErrorResponse(404), users, courses, saved, NoBody)
       ELSE IF totalVideos = 0
         THEN Ret(ErrorResponse(404), users, courses, saved, NoBody)
       ELSE IF enrollmentIndex = 0
         THEN Ret(ErrorResponse(400), users, courses, saved, NoBody)
       ELSE Ret(NoError,
                [users EXCEPT
                   ![uid].enrolledCourses[enrollmentIndex].progress = overallProgress],
                courses, saved,
                [progress |-> progress, completed |-> completed,
                 courseProgress |-> overallProgress,
                 completedVideos |-> completedVideos, totalVideos |-> totalVideos])

(***************************************************************************)
(* VideoService: playback and video progress.                              *)
(***************************************************************************)
\* cloudFront.getSignedUrl of config/aws.js, expiresIn in clock units
getSignedUrl(s3Key, expiresIn) ==
  [url |-> <<"CLOUDFRONT_DOMAIN", s3Key>>, expires |-> now + expiresIn]

\* 3600 seconds
PlaybackTtl == 12

getVideoById(videoId, userId) ==
  LET vid == CastId(videoId)
      uid == CastId(userId) IN
  IF vid \notin DOMAIN videos THEN Throw(ErrorResponse(404))
  ELSE IF videos[vid].course \notin DOMAIN courses THEN Throw(ErrorResponse(404))
  ELSE
    LET video == videos[vid]
        course == courses[video.course]
        IsCourse(enrollment) ==
          StrictEq(toString(ObjectId(enrollment.course)), toString(ObjectId(video.course)))
        isInstructor ==
          /\ uid \in DOMAIN users
          /\ \/ users[uid].role = "admin"
             \/ StrictEq(toString(ObjectId(course.instructor)), userId)
        enrolled ==
          /\ uid \in DOMAIN users
          /\ ~isInstructor
          /\ some(users[uid].enrolledCourses, IsCourse)
        viewed == IF enrolled THEN incrementViews(video, userId) ELSE video
        IsUser(view) == StrictEq(toString(ObjectId(view.user)), userId)
        userViewIndex == findIndex(viewed.viewHistory, IsUser)
    IN IF /\ ~video.isPublished
          /\ \/ uid \notin DOMAIN users
             \/ NotAuthorized(users[uid], course, userId)
         THEN Throw(ErrorResponse(404))
       ELSE IF ~(isInstructor \/ enrolled) THEN Throw(ErrorResponse(403))
       ELSE Ret(NoError, users, courses, [videos EXCEPT ![vid] = viewed],
                [NoBody EXCEPT
                   !.s3Key = viewed.s3Key,
                   !.videoUrl = getSignedUrl(video.s3Key, PlaybackTtl),
                   !.progress = IF ~isInstructor /\ userViewIndex # 0
                                  THEN viewed.viewHistory[userViewIndex].progress ELSE 0,
                   !.completed = IF ~isInstructor /\ userViewIndex # 0
                                   THEN viewed.viewHistory[userViewIndex].completed
                                   ELSE FALSE])

updateVideoProgress(videoId, userId, progress) ==
  LET vid == CastId(videoId)
      uid == CastId(userId) IN
  IF progress < 0 \/ progress > 100 THEN Throw(ErrorResponse(400))
  ELSE IF vid \notin DOMAIN videos THEN Throw(ErrorResponse(404))
  ELSE IF ~(uid \in EnrolledUsers(ObjectId(videos[vid].course)))
    THEN Throw(ErrorResponse(403))
  ELSE
    LET completed == progress >= 90
        saved == updateProgress(videos[vid], userId, progress, completed)
    IN Ret(NoError, users, courses, [videos EXCEPT ![vid] = saved],
           [NoBody EXCEPT !.progress = progress, !.completed = completed])

(***************************************************************************)
(* The ledger's routes.  /users/* and /videos/* sit behind protect only.   *)
(***************************************************************************)
\* POST /users/enroll/:courseId, the call running alone
EnrollReq(u, c) ==
  /\ Commit(enrollInCourse(ObjectId(u), String(c)), "enrollInCourse", u, c, 0)
  /\ UNCHANGED <<nextId, flight>>

\* GET /videos/:id
GetVideoByIdReq(u, v) ==
  /\ v \in DOMAIN videos => videos[v].views < MaxViews
  /\ Commit(getVideoById(String(v), ObjectId(u)), "getVideoById", u, CourseOfVideo(v), v)
  /\ UNCHANGED <<nextId, flight>>

\* POST /videos/:id/progress
UpdateVideoProgressReq(u, v, progress) ==
  /\ Commit(updateVideoProgress(String(v), ObjectId(u), progress),
            "updateVideoProgress", u, CourseOfVideo(v), v)
  /\ UNCHANGED <<nextId, flight>>

\* POST /users/course-progress
UpdateCourseProgressReq(u, c, v, progress) ==
  /\ Commit(updateCourseProgress(ObjectId(u), String(c), String(v), progress),
            "updateCourseProgress", u, c, v)
  /\ UNCHANGED <<nextId, flight>>

(***************************************************************************)
(* POST /users/enroll/:courseId split at its awaits, so that calls         *)
(* interleave and a save may be rejected by the store.                     *)
(***************************************************************************)
\* a call takes the first slot that holds no running call
Free == { r \in Slots : reqs[r].pc \in {"idle", "done"} }

FreeSlot == IF Free = {} THEN 0 ELSE CHOOSE r \in Free : \A q \in Free : r <= q

EnrollResponse(u, c, err) == Response("enrollInCourse", u, c, 0, err, NoBody)

\* await Course.findOne({_id: courseId, isPublished: true})
EnrollFindCourse(r, u, c) ==
  /\ r = FreeSlot
  /\ IF ~FindPublished(String(c))
       THEN /\ reqs' = [reqs EXCEPT ![r] = Idle]
            /\ resp' = EnrollResponse(u, c, ErrorResponse(404))
       ELSE /\ reqs' = [reqs EXCEPT ![r] =
                          [Idle EXCEPT !.pc = "findUser", !.user = u, !.course = c,
                                       !.enrollmentCount = courses[c].enrollmentCount]]
            /\ UNCHANGED resp
  /\ UNCHANGED <<users, courses, videos, s3, nextId, faults, now>>

\* await User.findById(userId), the isEnrolled check, the push and the
\* increment on the two documents in memory, up to the call of Promise.all
EnrollFindUser(r) ==
  /\ reqs[r].pc = "findUser"
  /\ IF IsEnrolled(users[reqs[r].user], String(reqs[r].course))
       THEN /\ reqs' = [reqs EXCEPT ![r] = Idle]
            /\ resp' = EnrollResponse(reqs[r].user, reqs[r].course, ErrorResponse(400))
       ELSE /\ reqs' = [reqs EXCEPT ![r].pc = "save",
                                    ![r].enrollmentCount = @ + 1,
                                    ![r].pending = {"user", "course"}]
            /\ UNCHANGED resp
  /\ UNCHANGED <<users, courses, videos, s3, nextId, faults, now>>

\* one of the two saves settles: Promise.all rejects with the first
\* rejection and resolves when both have resolved
Settle(r, which, ok) ==
  LET left == reqs[r].pending \ {which}
      err == IF ~ok /\ reqs[r].err = NoError THEN StoreError ELSE reqs[r].err
      userSaved == reqs[r].userSaved \/ (ok /\ which = "user")
  IN /\ reqs' = [reqs EXCEPT ![r] =
                    IF left = {}
                      THEN [Idle EXCEPT !.pc = "done", !.err = err,
                                        !.userSaved = userSaved]
                      ELSE [@ EXCEPT !.pending = left, !.err = err,
                                     !.userSaved = userSaved]]
     /\ faults' = IF ok THEN faults ELSE faults + 1
     /\ IF err # reqs[r].err \/ (left = {} /\ err = NoError)
          THEN resp' = EnrollResponse(reqs[r].user, reqs[r].course, err)
          ELSE UNCHANGED resp

\* user.save(): the pushed enrollment reaches the stored array
EnrollSaveUser(r, ok) ==
  /\ reqs[r].pc = "save"
  /\ "user" \in reqs[r].pending
  /\ ok \/ faults < MaxFaults
  /\ users' = IF ok
                THEN [users EXCEPT ![reqs[r].user].enrolledCourses =
                                      Append(@, NewEnrollment(String(reqs[r].course)))]
                ELSE users
  /\ Settle(r, "user", ok)
  /\ UNCHANGED <<courses, videos, s3, nextId, now>>

\* course.save(): the enrollmentCount of the document in memory is stored
EnrollSaveCourse(r, ok) ==
  /\ reqs[r].pc = "save"
  /\ "course" \in reqs[r].pending
  /\ ok \/ faults < MaxFaults
  /\ courses' = IF ok /\ reqs[r].course \in DOMAIN courses
                  THEN [courses EXCEPT ![reqs[r].course].enrollmentCount =
                                          reqs[r].enrollmentCount]
                  ELSE courses
  /\ Settle(r, "course", ok)
  /\ UNCHANGED <<users, videos, s3, nextId, now>>

(***************************************************************************)
(* The ledger: one course of instructor 2 with one published video.        *)
(***************************************************************************)
\* a course id that names no course
AbsentCourse == 2

\* the progress values clients submit
ProgressInputs == {-1, 89, 90, 101}

InitLedger ==
  /\ users = [u \in Users |-> NewUser(InitRole[u])]
  /\ \E isPublished \in BOOLEAN :
       courses = (1 :> NewCourse([title |-> DefaultTitle, isPublished |-> isPublished], 2))
  /\ videos = (1 :> NewVideo([course |-> ObjectId(1), module |-> 0, order |-> 1,
                              isPublished |-> TRUE], 1))
  /\ s3 = {1}
  /\ nextId = [course |-> 2, module |-> 1, upload |-> 2]
  /\ reqs = [r \in Slots |-> Idle]
  /\ faults = 0
  /\ now = 0
  /\ resp = NoResponse

NextEnroll ==
  \/ \E r \in Slots, u \in Users, c \in CourseIds \cup {AbsentCourse} :
       EnrollFindCourse(r, u, c)
  \/ \E r \in Slots : EnrollFindUser(r)
  \/ \E r \in Slots, ok \in BOOLEAN : EnrollSaveUser(r, ok)
  \/ \E r \in Slots, ok \in BOOLEAN : EnrollSaveCourse(r, ok)

SpecEnroll == InitLedger /\ [][NextEnroll]_vars

NextProgress ==
  \/ \E u \in Users, c \in CourseIds \cup {AbsentCourse} : EnrollReq(u, c)
  \/ \E u \in Users, v \in VideoIds : GetVideoByIdReq(u, v)
  \/ \E u \in Users, v \in VideoIds, p \in ProgressInputs :
       UpdateVideoProgressReq(u, v, p)
  \/ \E u \in Users, c \in CourseIds, v \in VideoIds, p \in ProgressInputs :
       UpdateCourseProgressReq(u, c, v, p)

SpecProgress == InitLedger /\ [][NextProgress]_vars

(***************************************************************************)
(* Playback: course 1 of instructor 2, published, and its video, published *)
(* or not.                                                                 *)
(***************************************************************************)
InitPlayback ==
  /\ users = [u \in Users |-> NewUser(InitRole[u])]
  /\ courses = (1 :> NewCourse([title |-> DefaultTitle, isPublished |-> TRUE], 2))
  /\ \E isPublished \in BOOLEAN :
       videos = (1 :> NewVideo([course |-> ObjectId(1), module |-> 0, order |-> 1,
                                isPublished |-> isPublished], 1))
  /\ s3 = {1}
  /\ nextId = [course |-> 2, module |-> 1, upload |-> 2]
  /\ reqs = [r \in Slots |-> Idle]
  /\ faults = 0
  /\ now = 0
  /\ resp = NoResponse

NextPlayback ==
  \/ \E u \in Users, c \in CourseIds : EnrollReq(u, c)
  \/ \E u \in Users, v \in VideoIds \cup {MaxUploads + 1} : GetVideoByIdReq(u, v)

SpecPlayback == InitPlayback /\ [][NextPlayback]_vars

(***************************************************************************)
(* Reviews.                                                                *)
(***************************************************************************)
\* the average cut off after the first decimal instead of rounded
calculateAverageRating_Truncated(reviews) ==
  IF Len(reviews) = 0 THEN Null
  ELSE LET sum == SumRatings(reviews) IN (sum * 10) \div Len(reviews)

\* CourseSchema.methods.calculateAverageRating, in tenths:
\* Math.round((sum / reviews.length) * 10) / 10
calculateAverageRating(reviews) ==
  IF Len(reviews) = 0 THEN Null
  ELSE LET sum == SumRatings(reviews) IN Round(sum * 10, Len(reviews))

\* the schema validators of reviews.rating (min 1, max 5)
ValidRating(rating) == rating >= 1 /\ rating <= 5

\* a service that lets anybody review
CanReview_Anyone(userId, courseId) == TRUE

\* User.findOne({_id: userId, 'enrolledCourses.course': courseId}) finds one
CanReview(userId, courseId) == CastId(userId) \in EnrolledUsers(courseId)

addReview(courseId, userId, rating) ==
  LET cid == CastId(courseId)
      uid == CastId(userId) IN
  IF cid \notin DOMAIN courses THEN Throw(ErrorResponse(404))
  ELSE IF ~CanReview(userId, courseId) THEN Throw(ErrorResponse(403))
  ELSE
    LET course == courses[cid]
        IsUser(review) == StrictEq(toString(ObjectId(review.user)), userId)
        existingReviewIndex == findIndex(course.reviews, IsUser)
        reviews == IF existingReviewIndex # 0
                     THEN [course.reviews EXCEPT ![existingReviewIndex].rating = rating]
                     ELSE Append(course.reviews, [user |-> uid, rating |-> rating])
    IN IF ~ValidRating(rating) THEN Throw(ValidationError)
       ELSE Ret(NoError, users,
                [courses EXCEPT ![cid].reviews = reviews,
                                ![cid].rating = calculateAverageRating(reviews)],
                videos, NoBody)

\* POST /courses/:id/reviews, behind protect only
AddReviewReq(u, c, rating) ==
  /\ c \in DOMAIN courses => Len(courses[c].reviews) < MaxReviews
  /\ Commit(addReview(String(c), ObjectId(u), rating), "addReview", u, c, 0)
  /\ UNCHANGED <<nextId, flight>>

\* the ratings clients submit
Ratings == {3, 4, 5, 6}

NextReview ==
  \/ \E u \in Users, c \in CourseIds : EnrollReq(u, c)
  \/ \E u \in Users, c \in CourseIds \cup {AbsentCourse}, rating \in Ratings :
       AddReviewReq(u, c, rating)

SpecReview == InitLedger /\ [][NextReview]_vars

(***************************************************************************)
(* Deletions on a stocked catalog: course 1 of instructor 2 with module 1  *)
(* and video 1 in that module, users enrolling meanwhile.                  *)
(***************************************************************************)
InitStocked ==
  /\ users = [u \in Users |-> NewUser(InitRole[u])]
  /\ courses = (1 :> [NewCourse([title |-> DefaultTitle, isPublished |-> TRUE], 2)
                        EXCEPT !.modules = <<[id |-> 1, order |-> 1]>>])
  /\ videos = (1 :> NewVideo([course |-> ObjectId(1), module |-> 1, order |-> 1,
                              isPublished |-> TRUE], 1))
  /\ s3 = {1}
  /\ nextId = [course |-> 2, module |-> 2, upload |-> 2]
  /\ reqs = [r \in Slots |-> Idle]
  /\ faults = 0
  /\ now = 0
  /\ resp = NoResponse

NextDelete ==
  \/ \E u \in Users, c \in CourseIds : EnrollReq(u, c)
  \/ \E u \in Users, c \in CourseIds, m \in ModuleIds : DeleteModuleReq(u, c, m)
  \/ \E u \in Users, v \in VideoIds : DeleteVideoReq(u, v)
  \/ \E u \in Users, c \in CourseIds : DeleteCourseReq(u, c)

SpecDelete == InitStocked /\ [][NextDelete]_vars

(***************************************************************************)
(* Deletions step by step.  Every await of deleteCourse, deleteModule and  *)
(* createVideo is a point where another request's store operations can run;*)
(* a request keeps the documents it loaded in its slot.                    *)
(***************************************************************************)
\* deleteCourse up to its last check: Course.findById, User.findById, the
\* permission check and User.countDocuments
DeleteCourseCheck(r, u, c) ==
  /\ r = FreeSlot
  /\ LET denied == authorize(Managers, u)
         err == IF denied # NoError THEN denied
                ELSE deleteCourse(String(c), ObjectId(u)).err
     IN IF err # NoError
          THEN /\ reqs' = [reqs EXCEPT ![r] = Idle]
               /\ resp' = Response("deleteCourse", u, c, 0, err, NoBody)
          ELSE /\ reqs' = [reqs EXCEPT ![r] =
                             [Idle EXCEPT !.pc = "deleteVideos", !.user = u,
                                          !.course = c]]
               /\ UNCHANGED resp
  /\ UNCHANGED <<users, courses, videos, s3, nextId, faults, now>>

\* Video.find and Video.deleteMany({ course: courseId })
DeleteCourseVideos(r) ==
  /\ reqs[r].pc = "deleteVideos"
  /\ videos' = [v \in DOMAIN videos \ VideosOf(String(reqs[r].course)) |-> videos[v]]
  /\ reqs' = [reqs EXCEPT ![r].pc = "deleteCourse"]
  /\ UNCHANGED <<users, courses, s3, nextId, faults, now, resp>>

\* Course.findByIdAndDelete(courseId) and the answer
DeleteCourseDelete(r) ==
  /\ reqs[r].pc = "deleteCourse"
  /\ courses' = [c \in DOMAIN courses \ {reqs[r].course} |-> courses[c]]
  /\ reqs' = [reqs EXCEPT ![r] = [Idle EXCEPT !.pc = "done"]]
  /\ resp' = Response("deleteCourse", reqs[r].user, reqs[r].course, 0, NoError, NoBody)
  /\ UNCHANGED <<users, videos, s3, nextId, faults, now>>

\* deleteModule up to its last check: Course.findById, the permission check
\* and Video.exists; the loaded course, its modules filtered, waits in the
\* slot for course.save()
DeleteModuleCheck(r, u, c, m) ==
  /\ r = FreeSlot
  /\ LET denied == authorize(Managers, u)
         found == deleteModule(String(c), String(m), ObjectId(u))
         err == IF denied # NoError THEN denied ELSE found.err
     IN IF err # NoError
          THEN /\ reqs' = [reqs EXCEPT ![r] = Idle]
               /\ resp' = Response("deleteModule", u, c, 0, err, NoBody)
          ELSE /\ reqs' = [reqs EXCEPT ![r] =
                             [Idle EXCEPT !.pc = "saveModules", !.user = u,
                                          !.course = c, !.module = m,
                                          !.modules = found.courses[c].modules]]
               /\ UNCHANGED resp
  /\ UNCHANGED <<users, courses, videos, s3, nextId, faults, now>>

\* course.save(): the filtered modules replace the stored ones; the save of
\* a document that is no longer stored fails
DeleteModuleSave(r) ==
  /\ reqs[r].pc = "saveModules"
  /\ LET c == reqs[r].course
         stored == c \in DOMAIN courses
     IN /\ courses' = IF stored
                        THEN [courses EXCEPT ![c].modules = reqs[r].modules]
                        ELSE courses
        /\ resp' = Response("deleteModule", reqs[r].user, c, 0,
                            IF stored THEN NoError ELSE StoreError, NoBody)
  /\ reqs' = [reqs EXCEPT ![r] = [Idle EXCEPT !.pc = "done"]]
  /\ UNCHANGED <<users, videos, s3, nextId, faults, now>>

\* createVideo up to Course.findById: the upload is stored, the course is
\* loaded and kept for the permission check and the module check
CreateVideoFindCourse(r, u, c, m) ==
  /\ r = FreeSlot
  /\ nextId.upload <= MaxUploads
  /\ LET denied == authorize(Managers, u)
         err == IF denied # NoError THEN denied
                ELSE IF c \notin DOMAIN courses THEN ErrorResponse(404)
                ELSE NoError
     IN /\ IF err # NoError
             THEN /\ reqs' = [reqs EXCEPT ![r] = Idle]
                  /\ resp' = Response("createVideo", u, c, 0, err, NoBody)
             ELSE /\ reqs' = [reqs EXCEPT ![r] =
                                [Idle EXCEPT !.pc = "createVideo", !.user = u,
                                             !.course = c, !.module = m,
                                             !.instructor = courses[c].instructor,
                                             !.modules = courses[c].modules,
                                             !.video = nextId.upload]]
                  /\ UNCHANGED resp
        /\ IF denied # NoError
             THEN UNCHANGED <<s3, nextId>>
             ELSE /\ s3' = s3 \cup {nextId.upload}
                  /\ nextId' = [nextId EXCEPT !.upload = @ + 1]
  /\ UNCHANGED <<users, courses, videos, faults, now>>

\* the rest of createVideo: User.findById, the permission check against the
\* loaded course, the module check against its loaded modules, Video.create
CreateVideoCreate(r) ==
  /\ reqs[r].pc = "createVideo"
  /\ LET u == reqs[r].user
         c == reqs[r].course
         key == reqs[r].video
         videoData == [course |-> String(c), module |-> reqs[r].module,
                       order |-> 1, isPublished |-> FALSE]
         IsIt(module) == StrictEq(toString(ObjectId(module.id)),
                                  String(videoData.module))
         course == [instructor |-> reqs[r].instructor, modules |-> reqs[r].modules]
         err == IF NotAuthorized(users[u], course, ObjectId(u))
                  THEN ErrorResponse(403)
                ELSE IF videoData.module # 0 /\ ~some(course.modules, IsIt)
                  THEN ErrorResponse(404)
                ELSE NoError
     IN /\ videos' = IF err = NoError
                       THEN (key :> NewVideo(videoData, key)) @@ videos
                       ELSE videos
        /\ resp' = Response("createVideo", u, c, key, err, NoBody)
  /\ reqs' = [reqs EXCEPT ![r] = [Idle EXCEPT !.pc = "done"]]
  /\ UNCHANGED <<users, courses, s3, nextId, faults, now>>

\* course 1 of instructor 2, published, with module 1 and nothing in it
InitRace ==
  /\ users = [u \in Users |-> NewUser(InitRole[u])]
  /\ courses = (1 :> [NewCourse([title |-> DefaultTitle, isPublished |-> TRUE], 2)
                        EXCEPT !.modules = <<[id |-> 1, order |-> 1]>>])
  /\ videos = << >>
  /\ s3 = {}
  /\ nextId = [course |-> 2, module |-> 2, upload |-> 1]
  /\ reqs = [r \in Slots |-> Idle]
  /\ faults = 0
  /\ now = 0
  /\ resp = NoResponse

\* the requests that race: user 3 enrolls while admin 1 manages the course,
\* and the store accepts every save
NextRace ==
  \/ \E r \in Slots, c \in CourseIds : EnrollFindCourse(r, 3, c)
  \/ \E r \in Slots : EnrollFindUser(r)
  \/ \E r \in Slots : EnrollSaveUser(r, TRUE)
  \/ \E r \in Slots : EnrollSaveCourse(r, TRUE)
  \/ \E r \in Slots, c \in CourseIds : DeleteCourseCheck(r, 1, c)
  \/ \E r \in Slots : DeleteCourseVideos(r)
  \/ \E r \in Slots : DeleteCourseDelete(r)
  \/ \E r \in Slots, c \in CourseIds, m \in ModuleIds : DeleteModuleCheck(r, 1, c, m)
  \/ \E r \in Slots : DeleteModuleSave(r)
  \/ \E r \in Slots, c \in CourseIds, m \in ModuleIds :
       CreateVideoFindCourse(r, 1, c, m)
  \/ \E r \in Slots : CreateVideoCreate(r)

SpecRace == InitRace /\ [][NextRace]_vars

(***************************************************************************)
(* The createVideo controller step by step.  The controller hands an async *)
(* callback to uploadToS3.single('video') and returns; asyncHandler sees   *)
(* only the promise of the controller, not the promise of the callback.    *)
(***************************************************************************)
\* what the multipart body holds: a video file, no file, or a file that
\* multer refuses
Files == {"video", "none", "refused"}

\* server.close() has not been called
Listening == \A r \in Slots : reqs[r].pc # "closed"

\* POST /videos up to the service call: authorize, then multer and the first
\* lines of the callback; an accepted file is stored under a fresh key
CreateVideoUpload(r, u, c, m, file) ==
  /\ r = FreeSlot
  /\ Listening
  /\ file = "video" => nextId.upload <= MaxUploads
  /\ LET denied == authorize(Managers, u)
         err == IF denied # NoError THEN denied
                ELSE IF file # "video" THEN ErrorResponse(400)
                ELSE NoError
     IN IF err # NoError
          THEN /\ reqs' = [reqs EXCEPT ![r] = Idle]
               /\ resp' = Response("createVideo", u, c, 0, err, NoBody)
               /\ UNCHANGED <<s3, nextId>>
          ELSE /\ reqs' = [reqs EXCEPT ![r] =
                             [Idle EXCEPT !.pc = "service", !.user = u,
                                          !.course = c, !.module = m,
                                          !.video = nextId.upload]]
               /\ s3' = s3 \cup {nextId.upload}
               /\ nextId' = [nextId EXCEPT !.upload = @ + 1]
               /\ UNCHANGED resp
  /\ UNCHANGED <<users, courses, videos, faults, now>>

\* const video = await videoService.createVideo(...) inside the callback:
\* the 201 follows when it returns; when it throws, the promise of the
\* callback is rejected and nothing is sent
CreateVideoService(r) ==
  /\ reqs[r].pc = "service"
  /\ LET u == reqs[r].user
         c == reqs[r].course
         key == reqs[r].video
         videoData == [course |-> String(c), module |-> reqs[r].module,
                       order |-> 1, isPublished |-> FALSE]
         created == createVideo(videoData, key, ObjectId(u))
     IN IF created.err = NoError
          THEN /\ videos' = created.videos
               /\ resp' = Response("createVideo", u, c, key, NoError, NoBody)
               /\ reqs' = [reqs EXCEPT ![r] = [Idle EXCEPT !.pc = "done"]]
          ELSE /\ reqs' = [reqs EXCEPT ![r].pc = "rejected", ![r].err = created.err]
               /\ UNCHANGED <<videos, resp>>
  /\ UNCHANGED <<users, courses, s3, nextId, faults, now>>

\* process.on('unhandledRejection'): the rejection nobody handles is logged
\* and the server is closed; the request stays unanswered
UnhandledRejection(r) ==
  /\ reqs[r].pc = "rejected"
  /\ reqs' = [reqs EXCEPT ![r].pc = "closed"]
  /\ UNCHANGED <<users, courses, videos, s3, nextId, faults, now, resp>>

\* course 1 of instructor 2 with module 1, published or not
InitUpload ==
  /\ users = [u \in Users |-> NewUser(InitRole[u])]
  /\ \E isPublished \in BOOLEAN :
       courses = (1 :> [NewCourse([title |-> DefaultTitle,
                                   isPublished |-> isPublished], 2)
                          EXCEPT !.modules = <<[id |-> 1, order |-> 1]>>])
  /\ videos = << >>
  /\ s3 = {}
  /\ nextId = [course |-> 2, module |-> 2, upload |-> 1]
  /\ reqs = [r \in Slots |-> Idle]
  /\ faults = 0
  /\ now = 0
  /\ resp = NoResponse

NextUpload ==
  \/ \E r \in Slots, u \in Users, c \in CourseIds \cup {AbsentCourse},
        m \in {0} \cup ModuleIds, file \in Files :
       CreateVideoUpload(r, u, c, m, file)
  \/ \E r \in Slots : CreateVideoService(r)
  \/ \E r \in Slots : UnhandledRejection(r)

SpecUpload == InitUpload /\ [][NextUpload]_vars

\* the event loop runs every continuation that is due
SpecUploadFair ==
  /\ SpecUpload
  /\ WF_vars(\E r \in Slots : CreateVideoService(r))
  /\ WF_vars(\E r \in Slots : UnhandledRejection(r))

(***************************************************************************)
(* Titles: courses created and updated with titles of several shapes.      *)
(***************************************************************************)
Titles ==
  { <<"P", "a", "n">>,
    <<"A", " ", " ", "b", "!">>,
    <<" ", "a", "_", "b", " ">>,
    <<"b", "-", "A">> }

\* request bodies of PUT /courses/:id that set the title
TitleUpdates ==
  { [fields |-> {"title"}, title |-> t, isPublished |-> FALSE, instructor |-> 0] :
      t \in Titles }

NextTitles ==
  \/ \E u \in Users, t \in Titles :
       CreateCourseReq(u, [title |-> t, isPublished |-> FALSE])
  \/ \E u \in Users, c \in CourseIds, d \in UpdateCourseData \cup TitleUpdates :
       UpdateCourseReq(u, c, d)

SpecTitles == Init /\ [][NextTitles]_vars

(***************************************************************************)
(* Accounts: AuthService and the profile and role methods of UserService.  *)
(***************************************************************************)
\* process.env.JWT_ACCESS_EXPIRATION and JWT_REFRESH_EXPIRATION, in clock units
AccessTtl == 1

RefreshTtl == 2

\* jwt.sign({id}, process.env.JWT_SECRET, {expiresIn})
sign(id, expiresIn) ==
  [id |-> id, iat |-> now, exp |-> now + expiresIn, secret |-> "JWT_SECRET"]

getSignedJwtToken(id) == sign(id, AccessTtl)

getRefreshToken(id) == sign(id, RefreshTtl)

JsonWebTokenError == [name |-> "JsonWebTokenError", statusCode |-> 0]

TokenExpiredError == [name |-> "TokenExpiredError", statusCode |-> 0]

\* a verification that never looks at exp
verify_NoExpiry(token) ==
  IF token.secret # "JWT_SECRET" THEN [err |-> JsonWebTokenError, decoded |-> NoJwt]
  ELSE [err |-> NoError, decoded |-> token]

\* jwt.verify(token, process.env.JWT_SECRET): the signature, then exp
verify(token) ==
  IF token.secret # "JWT_SECRET" THEN [err |-> JsonWebTokenError, decoded |-> NoJwt]
  ELSE IF now >= token.exp THEN [err |-> TokenExpiredError, decoded |-> NoJwt]
  ELSE [err |-> NoError, decoded |-> token]

\* bcrypt.hash of the pre('save') hook and bcrypt.compare of matchPassword
Hash(password) == <<"bcrypt", password>>

matchPassword(user, enteredPassword) == Hash(enteredPassword) = user.password

\* crypto.createHash('sha256').update(resetToken).digest('hex')
Sha256(resetToken) == <<"sha256", resetToken>>

\* resetPasswordToken of a user who has none
NoToken == <<"sha256", 0>>

\* 10 * 60 * 1000 ms, in units of five minutes
ResetWindow == 2

\* normalizeEmail() of registerValidation and loginValidation
normalizeEmail(email) == toLowerCase(Trim(email))

\* User.create(userData): trim and lowercase setters of email, password
\* hashed by the pre('save') hook, role and isActive by default
NewAccount(userData) ==
  [name |-> userData.name, email |-> toLowerCase(Trim(userData.email)),
   password |-> Hash(userData.password),
   resetPasswordToken |-> NoToken, resetPasswordExpire |-> 0]
    @@ NewUser("user")

\* User.findOne({email}): the setters of the path run on the query value
FindByEmail(email) ==
  { u \in DOMAIN users : users[u].email = toLowerCase(Trim(email)) }

\* a registration that looks nobody up
register_NoLookup(userData) ==
  Ret(NoError, (nextId.user :> NewAccount(userData)) @@ users, courses, videos,
      [NoBody EXCEPT !.accessToken = getSignedJwtToken(nextId.user),
                     !.refreshToken = getRefreshToken(nextId.user)])

register(userData) ==
  IF FindByEmail(userData.email) # {} THEN Throw(ErrorResponse(400))
  ELSE Ret(NoError, (nextId.user :> NewAccount(userData)) @@ users, courses, videos,
           [NoBody EXCEPT !.accessToken = getSignedJwtToken(nextId.user),
                     !.refreshToken = getRefreshToken(nextId.user)])

login(email, password) ==
  LET found == FindByEmail(email) IN
  IF email = <<>> \/ password = "" THEN Throw(ErrorResponse(400))
  ELSE IF found = {} THEN Throw(ErrorResponse(401))
  ELSE LET uid == CHOOSE u \in found : TRUE IN
       IF ~users[uid].isActive THEN Throw(ErrorResponse(403))
       ELSE IF ~matchPassword(users[uid], password) THEN Throw(ErrorResponse(401))
       ELSE Ret(NoError, users, courses, videos,
                [NoBody EXCEPT !.accessToken = getSignedJwtToken(uid),
                               !.refreshToken = getRefreshToken(uid)])

\* a profile update that lets the role through
AllowedUpdates_WithRole == {"name", "profileImage", "role"}

AllowedUpdates == {"name", "profileImage"}

updateUserProfile(userId, updateData) ==
  LET uid == CastId(userId)
      filteredData == updateData.fields \cap AllowedUpdates IN
  IF filteredData = {} THEN Throw(ErrorResponse(400))
  ELSE IF uid \notin DOMAIN users THEN Throw(ErrorResponse(404))
  ELSE Ret(NoError,
           [users EXCEPT
              ![uid].name = IF "name" \in filteredData THEN updateData.name ELSE @,
              ![uid].role = IF "role" \in filteredData THEN updateData.role ELSE @],
           courses, videos, NoBody)

changeUserRole(targetUserId, newRole, adminId) ==
  LET aid == CastId(adminId)
      tid == CastId(targetUserId) IN
  IF ~(aid \in DOMAIN users /\ users[aid].role = "admin") THEN Throw(ErrorResponse(403))
  ELSE IF newRole \notin {"user", "admin", "instructor"} THEN Throw(ErrorResponse(400))
  ELSE IF tid \notin DOMAIN users THEN Throw(ErrorResponse(404))
  ELSE Ret(NoError, [users EXCEPT ![tid].role = newRole], courses, videos, NoBody)

\* UserSchema.methods.getResetPasswordToken, the token being randomBytes(20)
getResetPasswordToken(user, resetToken) ==
  [user EXCEPT !.resetPasswordToken = Sha256(resetToken),
               !.resetPasswordExpire = now + ResetWindow]

forgotPassword(email, resetToken) ==
  LET found == FindByEmail(email) IN
  IF found = {} THEN Throw(ErrorResponse(404))
  ELSE LET uid == CHOOSE u \in found : TRUE IN
       Ret(NoError, [users EXCEPT ![uid] = getResetPasswordToken(@, resetToken)],
           courses, videos, NoBody)

\* minlength of the password path, lengths counted in units of eight
ValidPassword(password) == password \in {"p", "q"}

\* a lookup that forgets the expiry
FindByResetToken_NoExpiry(resetPasswordToken) ==
  { u \in DOMAIN users : users[u].resetPasswordToken = resetPasswordToken }

\* User.findOne({resetPasswordToken, resetPasswordExpire: {$gt: Date.now()}})
FindByResetToken(resetPasswordToken) ==
  { u \in DOMAIN users : /\ users[u].resetPasswordToken = resetPasswordToken
                         /\ users[u].resetPasswordExpire > now }

resetPassword(resetToken, newPassword) ==
  LET found == FindByResetToken(Sha256(resetToken)) IN
  IF found = {} THEN Throw(ErrorResponse(400))
  ELSE IF ~ValidPassword(newPassword) THEN Throw(ValidationError)
  ELSE LET uid == CHOOSE u \in found : TRUE IN
       Ret(NoError,
           [users EXCEPT ![uid].password = Hash(newPassword),
                         ![uid].resetPasswordToken = NoToken,
                         ![uid].resetPasswordExpire = 0],
           courses, videos, NoBody)

(***************************************************************************)
(* Requests on accounts.  The user of a response is the account the        *)
(* request named or was signed for, 0 when there is none.                  *)
(***************************************************************************)
Accounts == 1..MaxAccounts

OwnerOf(email) ==
  IF FindByEmail(email) = {} THEN 0 ELSE CHOOSE u \in FindByEmail(email) : TRUE

RegisterReq(userData) ==
  /\ LET r == register([userData EXCEPT !.email = normalizeEmail(@)]) IN
       /\ r.err = NoError => nextId.user \in Accounts
       /\ Commit(r, "register",
                 IF r.err = NoError THEN nextId.user ELSE OwnerOf(userData.email), 0, 0)
       /\ nextId' = IF r.err = NoError THEN [nextId EXCEPT !.user = @ + 1] ELSE nextId
  /\ UNCHANGED flight

LoginReq(email, password) ==
  /\ Commit(login(normalizeEmail(email), password), "login", OwnerOf(email), 0, 0)
  /\ UNCHANGED <<nextId, flight>>

\* PUT /users/profile behind protect
UpdateUserProfileReq(u, updateData) ==
  /\ u \in DOMAIN users
  /\ IF ~users[u].isActive
       THEN Reject(ErrorResponse(403), "updateUserProfile", u, 0, 0)
       ELSE Commit(updateUserProfile(ObjectId(u), updateData), "updateUserProfile", u, 0, 0)
  /\ UNCHANGED <<nextId, flight>>

\* the service method, which no route reaches
ChangeUserRole(targetUserId, newRole, adminId) ==
  /\ adminId \in DOMAIN users
  /\ Commit(changeUserRole(String(targetUserId), newRole, String(adminId)),
            "changeUserRole", adminId, 0, 0)
  /\ UNCHANGED <<nextId, flight>>

ForgotPasswordReq(email) ==
  /\ nextId.token <= MaxTokens
  /\ LET r == forgotPassword(email, nextId.token) IN
       /\ Commit(r, "forgotPassword", OwnerOf(email), 0, 0)
       /\ nextId' = IF r.err = NoError THEN [nextId EXCEPT !.token = @ + 1] ELSE nextId
  /\ UNCHANGED flight

ResetPasswordReq(resetToken, password) ==
  LET r == resetPassword(resetToken, password)
      owner == FindByResetToken(Sha256(resetToken)) IN
  /\ users' = r.users
  /\ resp' = Response("resetPassword",
                      IF owner = {} THEN 0 ELSE CHOOSE u \in owner : TRUE, 0, 0, r.err,
                      [r.body EXCEPT !.resetToken = resetToken])
  /\ UNCHANGED <<courses, videos, s3, nextId, flight>>

\* Date.now() moves on
Tick ==
  /\ now < MaxNow
  /\ now' = now + 1
  /\ UNCHANGED <<users, courses, videos, s3, nextId, reqs, faults, resp>>

(***************************************************************************)
(* Accounts: an admin and a second account, which may have been            *)
(* deactivated in the database.                                            *)
(***************************************************************************)
Emails == {<<"a">>, <<"A">>, <<"b">>, <<" ", "b">>, <<"n">>}
Passwords == {"p", "q", "x"}

Account(name, email, role, isActive) ==
  [NewAccount([name |-> name, email |-> email, password |-> "p"])
     EXCEPT !.role = role, !.isActive = isActive]

InitAccounts ==
  /\ \E isActive \in BOOLEAN :
       users = (1 :> Account("Ana", <<"a">>, "admin", TRUE))
                 @@ (2 :> Account("Ben", <<"b">>, "user", isActive))
  /\ courses = <<>>
  /\ videos = <<>>
  /\ s3 = {}
  /\ nextId = [course |-> 1, module |-> 1, upload |-> 1, user |-> 3, token |-> 1]
  /\ reqs = [r \in Slots |-> Idle]
  /\ faults = 0
  /\ now = 0
  /\ resp = NoResponse

ProfileUpdates ==
  { [fields |-> f, name |-> "Eva", role |-> "admin"] :
      f \in {{"role"}, {"name", "role"}, {"name"}} }

NextAccounts ==
  \/ \E e \in Emails, pw \in {"p", "q"} :
       RegisterReq([name |-> "Ana", email |-> e, password |-> pw])
  \/ \E e \in Emails, pw \in Passwords : LoginReq(e, pw)
  \/ \E u \in Accounts, d \in ProfileUpdates : UpdateUserProfileReq(u, d)
  \/ \E t \in Accounts \cup {MaxAccounts + 1}, a \in Accounts,
        role \in Roles \cup {"root"} : ChangeUserRole(t, role, a)

SpecAccounts == InitAccounts /\ [][NextAccounts]_vars

NextReset ==
  \/ \E e \in {<<"A">>, <<"b">>, <<"n">>} : ForgotPasswordReq(e)
  \/ \E t \in 1..MaxTokens, pw \in Passwords \ {"p"} : ResetPasswordReq(t, pw)
  \/ Tick

SpecReset == InitAccounts /\ [][NextReset]_vars

(***************************************************************************)
(* Tokens: the refresh endpoint and the protect middleware.                *)
(***************************************************************************)
refreshToken(token) ==
  IF token = NoJwt THEN Throw(ErrorResponse(400))
  ELSE LET v == verify(token)
           uid == v.decoded.id IN
       IF v.err = TokenExpiredError THEN Throw(ErrorResponse(401))
       ELSE IF v.err = JsonWebTokenError THEN Throw(ErrorResponse(401))
       ELSE IF uid \notin DOMAIN users THEN Throw(ErrorResponse(404))
       ELSE IF ~users[uid].isActive THEN Throw(ErrorResponse(403))
       ELSE Ret(NoError, users, courses, videos,
                [NoBody EXCEPT !.accessToken = getSignedJwtToken(uid)])

\* a middleware that lets deactivated users through
protect_NoActiveCheck(token) ==
  IF token = NoJwt THEN [err |-> ErrorResponse(401), user |-> 0]
  ELSE LET v == verify(token)
           uid == v.decoded.id IN
       IF v.err # NoError THEN [err |-> ErrorResponse(401), user |-> 0]
       ELSE IF uid \notin DOMAIN users THEN [err |-> ErrorResponse(404), user |-> 0]
       ELSE [err |-> NoError, user |-> uid]

\* the error passed to next, or the user put on the request
protect(token) ==
  IF token = NoJwt THEN [err |-> ErrorResponse(401), user |-> 0]
  ELSE LET v == verify(token)
           uid == v.decoded.id IN
       IF v.err # NoError THEN [err |-> ErrorResponse(401), user |-> 0]
       ELSE IF uid \notin DOMAIN users THEN [err |-> ErrorResponse(404), user |-> 0]
       ELSE IF ~users[uid].isActive THEN [err |-> ErrorResponse(403), user |-> 0]
       ELSE [err |-> NoError, user |-> uid]

getUserProfile(userId) ==
  IF CastId(userId) \notin DOMAIN users THEN Throw(ErrorResponse(404))
  ELSE Ret(NoError, users, courses, videos, NoBody)

\* POST /auth/refresh-token
RefreshTokenReq(token) ==
  /\ token.iat <= now
  /\ Commit(refreshToken(token), "refreshToken", token.id, 0, 0)
  /\ UNCHANGED <<nextId, flight>>

\* GET /users/profile with the token as bearer: the response is that of
\* protect when the handler did not run
GetUserProfileReq(token) ==
  /\ token.iat <= now
  /\ LET p == protect(token) IN
       IF p.err # NoError
         THEN Reject(p.err, "protect", token.id, 0, 0)
         ELSE Commit(getUserProfile(ObjectId(p.user)), "getUserProfile", p.user, 0, 0)
  /\ UNCHANGED <<nextId, flight>>

\* what a client may present: nothing, or a token for some id, issued as an
\* access or as a refresh token at some time, under the secret or another
PresentedTokens ==
  {NoJwt} \cup
  { [id |-> id, iat |-> iat, exp |-> iat + ttl, secret |-> secret] :
      id \in Accounts, iat \in 0..MaxNow, ttl \in {AccessTtl, RefreshTtl},
      secret \in {"JWT_SECRET", "other"} }

NextTokens ==
  \/ \E e \in {<<"a">>, <<"b">>, <<"n">>}, pw \in {"p", "q"} : LoginReq(e, pw)
  \/ \E token \in PresentedTokens : RefreshTokenReq(token)
  \/ \E token \in PresentedTokens : GetUserProfileReq(token)
  \/ Tick

SpecTokens == InitAccounts /\ [][NextTokens]_vars

(***************************************************************************)
(* The error handler of the application, as a function of the error and    *)
(* of the status the response carries when the handler is entered.         *)
(***************************************************************************)
\* an absent statusCode is 0 and an absent code is 0
errorHandler(err, res) ==
  LET statusCode == IF err.statusCode # 0 \/ res.statusCode = 200
                      THEN 500 ELSE res.statusCode IN
  IF err.name = "ValidationError" THEN 400
  ELSE IF err.name = "CastError" THEN 404
  ELSE IF err.code = 11000 THEN 400
  ELSE IF err.name = "JsonWebTokenError" THEN 401
  ELSE IF err.name = "TokenExpiredError" THEN 401
  ELSE statusCode

\* an error was passed to next
Thrown(err, res) ==
  Response("next", 0, 0, 0, err, [NoBody EXCEPT !.statusCode = res.statusCode])

HandleError ==
  /\ resp.op = "next"
  /\ resp' = [resp EXCEPT
                !.op = "errorHandler",
                !.body.statusCode =
                  errorHandler(resp.err, [statusCode |-> resp.body.statusCode])]
  /\ UNCHANGED <<users, courses, videos, s3, nextId, reqs, faults, now>>

ErrorNames ==
  {"ErrorResponse", "Error", "ValidationError", "CastError", "MongoError",
   "JsonWebTokenError", "TokenExpiredError"}

\* code 11000 is the duplicate key of the MongoDB driver
ThrownErrors ==
  { err \in [name : ErrorNames, statusCode : {0, 400, 401, 403, 404},
             code : {0, 11000}] : err.code = 11000 => err.name = "MongoError" }

\* 200 by default, 404 after notFound
EntryStatus == {200, 404}

InitErrors ==
  /\ users = [u \in Users |-> NewUser(InitRole[u])]
  /\ courses = <<>>
  /\ videos = <<>>
  /\ s3 = {}
  /\ nextId = [course |-> 1, module |-> 1, upload |-> 1]
  /\ reqs = [r \in Slots |-> Idle]
  /\ faults = 0
  /\ now = 0
  /\ \E err \in ThrownErrors, statusCode \in EntryStatus :
       resp = Thrown(err, [statusCode |-> statusCode])

SpecErrors == InitErrors /\ [][HandleError]_vars

(***************************************************************************)
(* Properties of the catalog.                                              *)
(***************************************************************************)
\* section 4.2 of the specification: admin, or the instructor of the course
CanManageCourse(u, c) == users[u].role = "admin" \/ courses[c].instructor = u

\* the step is a request of principal u that mutates course c, its
\* modules, adds a video to it or asks for an upload URL for it (the
\* response names the principal and the operation)
ManagesCourse(u, c) ==
  /\ resp'.user = u
  /\ \/ resp'.op = "updateCourse" /\ \E d \in UpdateCourseData : UpdateCourseReq(u, c, d)
     \/ resp'.op = "deleteCourse" /\ DeleteCourseReq(u, c)
     \/ resp'.op = "addModule" /\ \E d \in AddModuleData : AddModuleReq(u, c, d)
     \/ resp'.op = "updateModule"
          /\ \E m \in ModuleIds, d \in UpdateModuleData : UpdateModuleReq(u, c, m, d)
     \/ resp'.op = "deleteModule" /\ \E m \in ModuleIds : DeleteModuleReq(u, c, m)
     \/ resp'.op = "createVideo"
          /\ \E m \in {0} \cup ModuleIds, o \in VideoOrders : CreateVideoReq(u, c, m, o)
     \/ resp'.op = "getVideoUploadUrl"
          /\ \E t \in FileTypes : GetVideoUploadUrlReq(u, c, t)

\* some request of principal u that mutates video v
ManagesVideo(u, v) ==
  /\ resp'.user = u
  /\ \/ resp'.op = "updateVideo" /\ \E d \in UpdateVideoData : UpdateVideoReq(u, v, d)
     \/ resp'.op = "deleteVideo" /\ DeleteVideoReq(u, v)

\* the step was answered 403 and left every course and video as it was
Refused == ErrorStatus(resp'.err) = 403 /\ UNCHANGED <<courses, videos>>

\* C1: a mutating course, module or video request by a principal who is
\* neither an admin nor the instructor of the target course fails with 403
\* and leaves every course, module and video record as it was (a step that
\* is not such a refusal is no mutating request of such a principal).
C1_NonManagerForbidden ==
  [][\/ Refused
     \/ \A u \in Users \cap {resp'.user} :
          /\ \A c \in DOMAIN courses :
               ~CanManageCourse(u, c) => ~ManagesCourse(u, c)
          /\ \A v \in DOMAIN videos :
               (/\ videos[v].course \in DOMAIN courses
                /\ ~CanManageCourse(u, videos[v].course)) => ~ManagesVideo(u, v)]_vars

\* an instructor who passes the route's role check was refused by the
\* service on a video of somebody else's course
C1_Witness ==
  /\ resp.op = "deleteVideo"
  /\ resp.video \in DOMAIN videos
  /\ resp.course \in DOMAIN courses
  /\ users[resp.user].role = "instructor"
  /\ ~CanManageCourse(resp.user, resp.course)
  /\ ErrorStatus(resp.err) = 403

\* C2: a request through the controllers by a non-admin principal whose id
\* equals the course's instructor reference is not rejected with Forbidden
\* (updateCourse, deleteCourse, createVideo, updateVideo, deleteVideo).
C2_InstructorPermitted ==
  (/\ resp.op \in {"updateCourse", "deleteCourse", "createVideo",
                   "updateVideo", "deleteVideo"}
   /\ resp.course \in DOMAIN courses
   /\ users[resp.user].role # "admin"
   /\ courses[resp.course].instructor = resp.user)
    => ErrorStatus(resp.err) # 403

(***************************************************************************)
(* Properties of the ledger: enrollment.                                   *)
(***************************************************************************)
Enrolled(u, c) == u \in EnrolledUsers(ObjectId(c))

\* C3: once a user is enrolled in a published course, a later call of
\* Enroll by that user for that course fails with 400 and leaves the
\* user's enrollment list and the course's enrollment counter as they were.
C3_SecondEnrollRejected ==
  [][\A u \in Users, c \in DOMAIN courses :
       (/\ resp'.op = "enrollInCourse"
        /\ resp'.user = u
        /\ courses[c].isPublished
        /\ Enrolled(u, c)
        /\ EnrollReq(u, c))
         => /\ ErrorStatus(resp'.err) = 400
            /\ users'[u].enrolledCourses = users[u].enrolledCourses
            /\ courses'[c].enrollmentCount = courses[c].enrollmentCount]_vars

\* an enrolled user asked again and was told 400, one enrollment on record
C3_Witness ==
  /\ resp.op = "enrollInCourse"
  /\ ErrorStatus(resp.err) = 400
  /\ resp.course \in DOMAIN courses
  /\ Len(users[resp.user].enrolledCourses) = 1
  /\ users[resp.user].enrolledCourses[1].course = resp.course
  /\ courses[resp.course].enrollmentCount >= 1

\* C4: a call of Enroll that threw has not persisted its enrollment entry
\* on the user.
C4_AllOrNothing ==
  \A r \in Slots : reqs[r].err # NoError => ~reqs[r].userSaved

\* C5: when no call of Enroll is running, no save has been rejected and no
\* user enrolled twice, every course's enrollment counter equals the number
\* of users whose enrollment list references it.
C5_NoLostIncrement ==
  (/\ \A r \in Slots : reqs[r].pc \in {"idle", "done"}
   /\ faults = 0
   /\ \A u \in Users : Len(users[u].enrolledCourses) <= 1)
    => \A c \in DOMAIN courses :
         courses[c].enrollmentCount = Cardinality(EnrolledUsers(ObjectId(c)))

(***************************************************************************)
(* Properties of the ledger: progress.                                     *)
(***************************************************************************)
\* the step is a progress submission of p by u for video v of course
\* videos[v].course, through POST /videos/:id/progress
ViaVideoRoute(u, v, p) ==
  /\ resp'.op = "updateVideoProgress"
  /\ resp'.user = u
  /\ UpdateVideoProgressReq(u, v, p)

\* the same through POST /users/course-progress
ViaUserRoute(u, v, p) ==
  /\ resp'.op = "updateCourseProgress"
  /\ resp'.user = u
  /\ UpdateCourseProgressReq(u, videos[v].course, v, p)

\* the positions of u's entries in the view history of video v
ViewsOf(u, v) ==
  { i \in 1..Len(videos[v].viewHistory) : videos[v].viewHistory[i].user = u }

\* C6: a progress submission (of a value in 0..100) by a user who is not
\* enrolled in the video's course fails with 403 and leaves the view
\* history of the video as it was, through either entry point.
C6_NotEnrolledWritesNothing ==
  [][\A u \in Users, v \in DOMAIN videos, p \in ProgressInputs \cap 0..100 :
       (/\ videos[v].course \in DOMAIN courses
        /\ ~Enrolled(u, videos[v].course)
        /\ ViaVideoRoute(u, v, p) \/ ViaUserRoute(u, v, p))
         => /\ ErrorStatus(resp'.err) = 403
            /\ videos'[v].viewHistory = videos[v].viewHistory]_vars

OneEntryPerUser ==
  \A v \in DOMAIN videos :
    \A i, j \in 1..Len(videos[v].viewHistory) :
      videos[v].viewHistory[i].user = videos[v].viewHistory[j].user => i = j

\* C7: every video keeps at most one view-history entry per user; a
\* successful submission of p leaves in it the entry of that user with
\* progress p and completed = (p >= 90), and a view (getVideoById) leaves
\* the progress recorded in the entries alone.
C7_OneEntryLastProgress ==
  [][/\ OneEntryPerUser'
     /\ \A u \in Users, v \in DOMAIN videos :
          /\ \A p \in ProgressInputs :
               (/\ resp'.err = NoError
                /\ resp'.video = v
                /\ ViaVideoRoute(u, v, p) \/ ViaUserRoute(u, v, p))
                 => \E i \in 1..Len(videos'[v].viewHistory) :
                      videos'[v].viewHistory[i] =
                        [user |-> u, progress |-> p, completed |-> (p >= 90)]
          /\ (/\ resp'.op = "getVideoById"
              /\ resp'.user = u
              /\ resp'.video = v
              /\ GetVideoByIdReq(u, v))
               => \A i \in 1..Len(videos[v].viewHistory) :
                    videos'[v].viewHistory[i] = videos[v].viewHistory[i]]_vars

\* user 3 watched, and the submission of 90 was answered: one entry, 90,
\* completed
C7_Witness ==
  /\ resp.op = "updateVideoProgress"
  /\ resp.err = NoError
  /\ resp.body.progress = 90
  /\ resp.video \in DOMAIN videos
  /\ videos[resp.video].views >= 1
  /\ Cardinality(ViewsOf(resp.user, resp.video)) = 1
  /\ \A i \in ViewsOf(resp.user, resp.video) :
       /\ videos[resp.video].viewHistory[i].progress = 90
       /\ videos[resp.video].viewHistory[i].completed

ViewsInRange ==
  \A v \in DOMAIN videos :
    \A i \in 1..Len(videos[v].viewHistory) :
      LET view == videos[v].viewHistory[i]
      IN view.progress >= 0 /\ view.progress <= 100
           /\ view.completed = (view.progress >= 90)

CompletedBy(u, c) ==
  Cardinality({ v \in VideosOf(ObjectId(c)) :
                  \E i \in ViewsOf(u, v) : videos[v].viewHistory[i].completed })

\* C9: after a successful progress submission by an enrolled user, through
\* either route, the progress of the user's enrollment in the video's
\* course is round(100 * C / T).
C9_CourseProgressRecomputed ==
  \A i \in 1..(IF resp.user \in DOMAIN users
                 THEN Len(users[resp.user].enrolledCourses) ELSE 0) :
    (/\ resp.op \in {"updateVideoProgress", "updateCourseProgress"}
     /\ resp.err = NoError
     /\ users[resp.user].enrolledCourses[i].course = resp.course)
      => users[resp.user].enrolledCourses[i].progress =
           Round(100 * CompletedBy(resp.user, resp.course),
                 Cardinality(VideosOf(ObjectId(resp.course))))

\* C10: a successful submission of p by an enrolled user, repeated at once
\* through the same route, leaves users, courses and videos as the first
\* left them and returns what the first returned.
C10_Idempotent ==
  [][\A u \in Users, v \in DOMAIN videos, p \in ProgressInputs \cap 0..100 :
       (/\ resp.err = NoError
        /\ resp.user = u
        /\ resp.video = v
        /\ resp.body.progress = p
        /\ Enrolled(u, videos[v].course)
        /\ \/ resp.op = "updateVideoProgress" /\ ViaVideoRoute(u, v, p)
           \/ resp.op = "updateCourseProgress" /\ ViaUserRoute(u, v, p))
         => /\ UNCHANGED <<users, courses, videos>>
            /\ resp'.err = NoError
            /\ resp'.body = resp.body]_vars

\* an enrolled user's submission through /users/course-progress was
\* answered, with one entry for the user holding the value
C10_Witness ==
  /\ resp.op = "updateCourseProgress"
  /\ resp.err = NoError
  /\ resp.body.totalVideos >= 1
  /\ Cardinality(ViewsOf(resp.user, resp.video)) = 1
  /\ \A i \in ViewsOf(resp.user, resp.video) :
       videos[resp.video].viewHistory[i].progress = resp.body.progress

(***************************************************************************)
(* Properties of reviews.                                                  *)
(***************************************************************************)
\* C11: every course holds at most one review per user.
C11_OneReviewPerUser ==
  \A c \in DOMAIN courses :
    \A i, j \in 1..Len(courses[c].reviews) :
      courses[c].reviews[i].user = courses[c].reviews[j].user => i = j

\* the rating r, in tenths, is the mean of the ratings of reviews rounded
\* half-up to one decimal
IsRoundedMean(r, reviews) ==
  LET n == Len(reviews)
      sum == SumRatings(reviews)
  IN 2 * n * r - n <= 20 * sum /\ 20 * sum < 2 * n * r + n

C14_DeletionGuards ==
  [][\A u \in Users, c \in DOMAIN courses :
       CanManageCourse(u, c) =>
         /\ \A m \in ModuleIds :
              (/\ resp'.op = "deleteModule"
               /\ resp'.user = u
               /\ \E v \in VideosOf(ObjectId(c)) : videos[v].module = m
               /\ DeleteModuleReq(u, c, m))
                => /\ ErrorStatus(resp'.err) = 400
                   /\ courses'[c].modules = courses[c].modules
         /\ (/\ resp'.op = "deleteCourse"
             /\ resp'.user = u
             /\ EnrolledUsers(ObjectId(c)) # {}
             /\ DeleteCourseReq(u, c))
              => /\ ErrorStatus(resp'.err) = 400
                 /\ UNCHANGED <<courses, videos>>]_vars

\* C15: a step that removes a video record also removes the storage object
\* under the video's key.
C15_StorageReleased ==
  [][\A v \in DOMAIN videos :
       v \notin DOMAIN videos' => videos[v].s3Key \notin s3']_vars

(***************************************************************************)
(* Properties of titles.                                                   *)
(***************************************************************************)
\* C16: the slug of every course is the derivation of its current title.
C16_SlugFollowsTitle ==
  \A c \in DOMAIN courses : courses[c].slug = Slugify(courses[c].title)

(***************************************************************************)
(* Properties of accounts.                                                 *)
(***************************************************************************)
\* C17: a role is changed only by changeUserRole called by a principal who
\* has role admin at that time, and only to user, instructor or admin; a
\* user created by Register has role user; updateUserProfile changes no
\* role; changeUserRole by a non-admin fails with 403 and with a role
\* outside the three fails with 400, the users unchanged in both cases.
C17_RoleOnlyByAdmin ==
  [][/\ \A u \in DOMAIN users' :
          IF u \in DOMAIN users
            THEN users'[u].role # users[u].role
                   => /\ resp'.op = "changeUserRole"
                      /\ ErrorStatus(resp'.err) = 200
                      /\ users[resp'.user].role = "admin"
                      /\ users'[u].role \in {"user", "instructor", "admin"}
            ELSE resp'.op = "register" /\ users'[u].role = "user"
     /\ resp'.op = "changeUserRole"
          => /\ users[resp'.user].role # "admin" => ErrorStatus(resp'.err) = 403
             /\ ErrorStatus(resp'.err) # 200 => users' = users
     /\ \A t \in Accounts \cup {MaxAccounts + 1}, a \in Accounts :
          (/\ resp'.op = "changeUserRole"
           /\ resp'.user = a
           /\ users[a].role = "admin"
           /\ ChangeUserRole(t, "root", a))
            => ErrorStatus(resp'.err) = 400]_vars

\* an account an admin made instructor was refused a role change
C17_Witness ==
  /\ resp.op = "changeUserRole"
  /\ ErrorStatus(resp.err) = 403
  /\ resp.user = 2
  /\ users[2].role = "instructor"
  /\ \E u \in DOMAIN users : u > 2 /\ users[u].role = "user"

\* C18: a login with a registered email and a wrong password and a login
\* with an unknown email are both answered 401, whatever the account; a
\* login succeeds only for a registered email, the matching password and an
\* active account, and then returns an access and a refresh token; a
\* deactivated account presenting its password is answered 403.
C18_LoginOutcomes ==
  [][\A e \in Emails, pw \in Passwords :
       (resp'.op = "login" /\ LoginReq(e, pw))
         => LET owner == OwnerOf(e)
                status == ErrorStatus(resp'.err) IN
            /\ owner = 0 => status = 401
            /\ (owner # 0 /\ ~matchPassword(users[owner], pw)) => status = 401
            /\ status = 200
                 => /\ owner # 0
                    /\ matchPassword(users[owner], pw)
                    /\ users[owner].isActive
                    /\ resp'.body.accessToken = getSignedJwtToken(owner)
                    /\ resp'.body.refreshToken = getRefreshToken(owner)
            /\ (owner # 0 /\ matchPassword(users[owner], pw) /\ ~users[owner].isActive)
                 => status = 403]_vars

\* the emails of the users differ pairwise after lowercasing
UniqueEmails ==
  \A u, v \in DOMAIN users :
    toLowerCase(users[u].email) = toLowerCase(users[v].email) => u = v

Holders(usrs, resetToken) ==
  { u \in DOMAIN usrs : usrs[u].resetPasswordToken = Sha256(resetToken) }

\* C20: a reset succeeds only if some user stores the hash of the presented
\* token and that user's expiry lies after the current time, and it clears
\* that user's reset fields; a reset that does not succeed is answered 400
\* and changes no user, and one whose token has no unexpired holder does not
\* succeed; a token nobody holds any more is never held again, and a stored
\* expiry does not move while its token stays, so that after a successful
\* reset or after the expiry the same token is refused, the password as it
\* was.
C20_ResetTokenOnceBeforeExpiry ==
  [][/\ (/\ resp'.op = "resetPassword"
         /\ \E pw \in Passwords : ResetPasswordReq(resp'.body.resetToken, pw))
          => LET resetToken == resp'.body.resetToken
                 status == ErrorStatus(resp'.err) IN
             /\ status = 200
                  => /\ \E u \in Holders(users, resetToken) :
                          /\ users[u].resetPasswordExpire > now
                          /\ users'[u].resetPasswordExpire = 0
                     /\ Holders(users', resetToken) = {}
             /\ status # 200 => status = 400 /\ users' = users
             /\ (\A u \in Holders(users, resetToken) :
                    users[u].resetPasswordExpire <= now) => status = 400
     /\ \A resetToken \in 1..MaxTokens :
          /\ (resetToken < nextId.token /\ Holders(users, resetToken) = {})
               => Holders(users', resetToken) = {}
          /\ \A u \in Holders(users, resetToken) \cap Holders(users', resetToken) :
               users'[u].resetPasswordExpire = users[u].resetPasswordExpire
     /\ now' >= now
     /\ \A u \in DOMAIN users :
          users'[u].password # users[u].password
            => resp'.op = "resetPassword" /\ ErrorStatus(resp'.err) = 200]_vars

\* the only token ever issued reset the password of account 1, was presented
\* again and was refused
C20_Witness ==
  /\ resp.op = "resetPassword"
  /\ ErrorStatus(resp.err) = 400
  /\ resp.body.resetToken = 1
  /\ nextId.token = 2
  /\ users[1].password = Hash("q")
  /\ users[1].resetPasswordToken = NoToken

\* a token was refused after its expiry, its holder's password as it was
C20_WitnessExpired ==
  /\ resp.op = "resetPassword"
  /\ ErrorStatus(resp.err) = 400
  /\ \E u \in Holders(users, resp.body.resetToken) :
       /\ users[u].resetPasswordExpire <= now
       /\ users[u].password = Hash("p")

(***************************************************************************)
(* Properties of tokens.                                                   *)
(***************************************************************************)
\* the token verifies now: signed with the secret and not expired
Verifies(token) == token.secret = "JWT_SECRET" /\ now < token.exp

\* C21: a refresh succeeds only for a presented token that verifies and
\* names an existing active account; it then returns a new access token and
\* no refresh token, changes no stored state, and the same token would
\* succeed again; a token that is there and does not verify is answered 401.
C21_RefreshOnlyVerified ==
  [][\A token \in PresentedTokens :
       (/\ resp'.op = "refreshToken"
        /\ resp'.user = token.id
        /\ RefreshTokenReq(token))
         => LET status == ErrorStatus(resp'.err) IN
            /\ status = 200
                 => /\ Verifies(token)
                    /\ token.id \in DOMAIN users
                    /\ users[token.id].isActive
                    /\ resp'.body.accessToken = getSignedJwtToken(token.id)
                    /\ resp'.body.refreshToken = NoJwt
                    /\ UNCHANGED <<users, courses, videos, s3>>
                    /\ (refreshToken(token).err)' = NoError
            /\ (token # NoJwt /\ ~Verifies(token)) => status = 401]_vars

\* account 1 was given a new access token for a token presented after time 0
C21_Witness ==
  /\ resp.op = "refreshToken"
  /\ ErrorStatus(resp.err) = 200
  /\ resp.user = 1
  /\ now >= 1
  /\ resp.body.accessToken = getSignedJwtToken(1)

C23_StatusOfError ==
  resp.op = "errorHandler"
    => /\ (/\ resp.err.name = "ErrorResponse"
           /\ resp.err.statusCode \in {400, 401, 403, 404})
            => resp.body.statusCode = resp.err.statusCode
       /\ resp.err.name = "ValidationError" => resp.body.statusCode = 400
       /\ resp.err.name = "CastError" => resp.body.statusCode = 404
       /\ (resp.err.name = "MongoError" /\ resp.err.code = 11000)
            => resp.body.statusCode = 400
       /\ resp.err.name \in {"JsonWebTokenError", "TokenExpiredError"}
            => resp.body.statusCode = 401

(***************************************************************************)
(* Properties of playback.                                                 *)
(***************************************************************************)
\* C24: getVideoById returns a signed URL only to an admin, the instructor
\* of the video's course or a user enrolled in it; for a published video
\* anyone else is answered 403; for an unpublished video the URL is returned
\* to the managers of the course and to them alone; the view counter moves
\* only for an enrolled viewer who is not a manager.
C24_PlaybackAccess ==
  [][\A u \in Users, v \in DOMAIN videos :
       (/\ resp'.op = "getVideoById"
        /\ resp'.user = u
        /\ resp'.video = v
        /\ videos[v].course \in DOMAIN courses
        /\ GetVideoByIdReq(u, v))
         => LET c == videos[v].course
                manager == CanManageCourse(u, c)
                enrolled == Enrolled(u, c)
                issued == resp'.body.videoUrl # NoUrl IN
            /\ issued => manager \/ enrolled
            /\ (videos[v].isPublished /\ ~manager /\ ~enrolled)
                 => ErrorStatus(resp'.err) = 403
            /\ ~videos[v].isPublished => (issued <=> manager)
            /\ videos'[v].views # videos[v].views => enrolled /\ ~manager]_vars

\* C25: no result that getVideoById or updateVideoProgress returns to a
\* caller contains the storage key of the video.
C25_StorageKeyHidden ==
  (resp.op \in {"getVideoById", "updateVideoProgress"} /\ resp.err = NoError)
    => resp.body.s3Key = 0

(***************************************************************************)
(* Properties of references.                                               *)
(***************************************************************************)
\* C26: the instructor of every course is an existing user whose role is
\* instructor or admin.
C26_InstructorResolves ==
  \A c \in DOMAIN courses :
    /\ courses[c].instructor \in DOMAIN users
    /\ users[courses[c].instructor].role \in {"instructor", "admin"}

(***************************************************************************)
(* Properties under interleaving.                                          *)
(***************************************************************************)
\* C27: no user's enrollment list holds two entries for the same course.
C27_NoDuplicateEnrollment ==
  \A u \in DOMAIN users :
    \A i, j \in 1..Len(users[u].enrolledCourses) :
      users[u].enrolledCourses[i].course = users[u].enrolledCourses[j].course
        => i = j

\* C28: no enrollment of a user refers to a course that has been deleted, and
\* no video refers to a module that has been removed from its course,
\* however deleteCourse interleaves with enrollments and deleteModule with
\* createVideo.
C28_NoDanglingReference ==
  /\ \A u \in DOMAIN users :
       \A i \in 1..Len(users[u].enrolledCourses) :
         users[u].enrolledCourses[i].course \in DOMAIN courses
  /\ \A v \in DOMAIN videos :
       (videos[v].module # 0 /\ videos[v].course \in DOMAIN courses)
         => \E i \in 1..Len(courses[videos[v].course].modules) :
              courses[videos[v].course].modules[i].id = videos[v].module

(***************************************************************************)
(* Properties of the two kinds of token.                                   *)
(***************************************************************************)
\* what getSignedJwtToken and what getRefreshToken signed: the two are told
\* apart by their lifetime alone
IssuedAsAccess(token) ==
  token.secret = "JWT_SECRET" /\ token.exp = token.iat + AccessTtl

IssuedAsRefresh(token) ==
  token.secret = "JWT_SECRET" /\ token.exp = token.iat + RefreshTtl

\* C30: a refresh succeeds only for a token that was issued as a refresh
\* token, and behind protect the handler runs only for a bearer token that
\* was issued as an access token.
C30_TokensNotInterchangeable ==
  [][\A token \in PresentedTokens :
       /\ (/\ resp'.op = "refreshToken"
           /\ resp'.err = NoError
           /\ RefreshTokenReq(token)) => IssuedAsRefresh(token)
       /\ (/\ resp'.op = "getUserProfile"
           /\ GetUserProfileReq(token)) => IssuedAsAccess(token)]_vars

(***************************************************************************)
(* Properties of failure reporting.                                        *)
(***************************************************************************)
\* C29: a createVideo request whose service call is under way is eventually
\* answered, with the failure when the call fails, and no failure of the
\* call reaches the process-level unhandledRejection handler.
C29_FailureReported ==
  /\ \A r \in Slots :
       reqs[r].pc = "service" ~> reqs[r].pc \in {"idle", "done"}
  /\ [](\A r \in Slots : reqs[r].pc \notin {"rejected", "closed"})

====
